---- MODULE Spec2Model ----
(***************************************************************************)
(* A model of the command/response layer of rust-cktap (src/src/lib.rs)    *)
(* and of the driver that uses it (src/examples/pcsc.rs).                  *)
(*                                                                         *)
(* Bytes are naturals in 0..255, byte strings are sequences of bytes.      *)
(* Option<T> is a sequence of length 0 (None) or 1 (Some).                 *)
(* A CBOR value (ciborium::value::Value) is a record [t, v]:               *)
(*   uint  v = the number          text  v = its UTF-8 bytes               *)
(*   bytes v = the bytes           array v = a sequence of values          *)
(*   map   v = a sequence of entries [k |-> value, v |-> value]            *)
(*   bool  v = TRUE/FALSE          null  v = 0                             *)
(*   nint  v = n, the negative integer -1 - n                              *)
(***************************************************************************)
EXTENDS Integers, Sequences, FiniteSets, TLC

VARIABLES pc, input, output, card, session, counters

vars == <<pc, input, output, card, session, counters>>

(***************************************************************************)
(* Bounds of the model.                                                    *)
(***************************************************************************)
\* payloads handed to build_apdu have 0..MaxPayloadLen bytes
MaxPayloadLen == 258
\* byte strings are filled with the pattern (seed + i) % 256, seed in 0..MaxSeed
MaxSeed == 1
\* length of the over-long epubkey a caller may hand to WaitCommand::new
LongKeyLen == 130
\* the card's auth_delay at discovery is in 0..MaxDelay
MaxDelay == 2
\* the card draws its nonces from the patterns 0..MaxNonce
MaxNonce == 1

(***************************************************************************)
(* Constants of src/src/lib.rs.                                            *)
(***************************************************************************)
APP_ID == <<240, 67, 111, 105, 110, 107, 105, 116, 101, 67, 65, 82, 68, 118, 49>>

SELECT_CLA_INS_P1P2 == <<0, 164, 4, 0>>

CBOR_CLA_INS_P1P2 == <<0, 203, 0, 0>>

CARD_NONCE_SIZE == 16

USER_NONCE_SIZE == 16

\* sizes the field documentation of the commands and responses gives
EPUBKEY_SIZE == 33

XCVC_MIN_SIZE == 6

XCVC_MAX_SIZE == 32

SIG_SIZE == 64

(***************************************************************************)
(* Helpers: byte strings, options, UTF-8 of the field names and literals.  *)
(***************************************************************************)
Pattern(n, seed) == [i \in 1..n |-> (seed + i) % 256]

None == <<>>

Some(x) == <<x>>

is_some(o) == Len(o) = 1

is_none(o) == Len(o) = 0

Utf8(s) ==
  CASE s = "cmd" -> <<99, 109, 100>>
    [] s = "status" -> <<115, 116, 97, 116, 117, 115>>
    [] s = "read" -> <<114, 101, 97, 100>>
    [] s = "wait" -> <<119, 97, 105, 116>>
    [] s = "nonce" -> <<110, 111, 110, 99, 101>>
    [] s = "epubkey" -> <<101, 112, 117, 98, 107, 101, 121>>
    [] s = "xcvc" -> <<120, 99, 118, 99>>
    [] s = "error" -> <<101, 114, 114, 111, 114>>
    [] s = "code" -> <<99, 111, 100, 101>>
    [] s = "proto" -> <<112, 114, 111, 116, 111>>
    [] s = "ver" -> <<118, 101, 114>>
    [] s = "birth" -> <<98, 105, 114, 116, 104>>
    [] s = "slots" -> <<115, 108, 111, 116, 115>>
    [] s = "addr" -> <<97, 100, 100, 114>>
    [] s = "tapsigner" -> <<116, 97, 112, 115, 105, 103, 110, 101, 114>>
    [] s = "satschip" -> <<115, 97, 116, 115, 99, 104, 105, 112>>
    [] s = "path" -> <<112, 97, 116, 104>>
    [] s = "num_backups" -> <<110, 117, 109, 95, 98, 97, 99, 107, 117, 112, 115>>
    [] s = "pubkey" -> <<112, 117, 98, 107, 101, 121>>
    [] s = "card_nonce" -> <<99, 97, 114, 100, 95, 110, 111, 110, 99, 101>>
    [] s = "testnet" -> <<116, 101, 115, 116, 110, 101, 116>>
    [] s = "auth_delay" -> <<97, 117, 116, 104, 95, 100, 101, 108, 97, 121>>
    [] s = "sig" -> <<115, 105, 103>>
    [] s = "success" -> <<115, 117, 99, 99, 101, 115, 115>>
    [] s = "1.0.0" -> <<49, 46, 48, 46, 48>>
    [] s = "bad auth" -> <<98, 97, 100, 32, 97, 117, 116, 104>>
    [] s = "x" -> <<120>>

(***************************************************************************)
(* CBOR values and their encoding (ciborium::ser::into_writer, RFC 8949    *)
(* definite-length items in the shortest form).                            *)
(***************************************************************************)
VUint(n) == [t |-> "uint", v |-> n]

VText(s) == [t |-> "text", v |-> Utf8(s)]

VBytes(b) == [t |-> "bytes", v |-> b]

VBool(b) == [t |-> "bool", v |-> b]

VNull == [t |-> "null", v |-> 0]

VArray(a) == [t |-> "array", v |-> a]

VMap(es) == [t |-> "map", v |-> es]

Entry(name, val) == [k |-> VText(name), v |-> val]

\* the initial byte(s) of an item: major type and argument
ItemHead(major, n) ==
  IF n < 24 THEN <<major * 32 + n>>
  ELSE IF n < 256 THEN <<major * 32 + 24, n>>
  ELSE IF n < 65536 THEN <<major * 32 + 25, n \div 256, n % 256>>
  ELSE <<major * 32 + 26, (n \div 16777216) % 256, (n \div 65536) % 256,
         (n \div 256) % 256, n % 256>>

RECURSIVE Encode(_)
RECURSIVE EncodeAll(_)
RECURSIVE EncodeEntries(_)

Encode(val) ==
  CASE val.t = "uint" -> ItemHead(0, val.v)
    [] val.t = "bytes" -> ItemHead(2, Len(val.v)) \o val.v
    [] val.t = "text" -> ItemHead(3, Len(val.v)) \o val.v
    [] val.t = "array" -> ItemHead(4, Len(val.v)) \o EncodeAll(val.v)
    [] val.t = "map" -> ItemHead(5, Len(val.v)) \o EncodeEntries(val.v)
    [] val.t = "bool" -> IF val.v THEN <<245>> ELSE <<244>>
    [] val.t = "null" -> <<246>>
    [] val.t = "nint" -> ItemHead(1, val.v)

\* the items one after the other (halving keeps the evaluation shallow)
EncodeAll(vals) ==
  IF Len(vals) = 0 THEN <<>>
  ELSE IF Len(vals) = 1 THEN Encode(vals[1])
  ELSE LET m == Len(vals) \div 2
       IN  EncodeAll(SubSeq(vals, 1, m)) \o EncodeAll(SubSeq(vals, m + 1, Len(vals)))

EncodeEntries(es) ==
  IF Len(es) = 0 THEN <<>>
  ELSE IF Len(es) = 1 THEN Encode(es[1].k) \o Encode(es[1].v)
  ELSE LET m == Len(es) \div 2
       IN  EncodeEntries(SubSeq(es, 1, m)) \o EncodeEntries(SubSeq(es, m + 1, Len(es)))

(***************************************************************************)
(* Commands (src/src/lib.rs, "Commands") and their serde serialization.    *)
(* A command is a record [type, cmd, nonce, epubkey, xcvc]; a field the    *)
(* command's struct does not have is None and is never read.               *)
(***************************************************************************)
AppletSelect ==
  [type |-> "AppletSelect", cmd |-> <<>>, nonce |-> <<>>,
   epubkey |-> None, xcvc |-> None]

StatusCommand ==
  [type |-> "StatusCommand", cmd |-> Utf8("status"), nonce |-> <<>>,
   epubkey |-> None, xcvc |-> None]

ReadCommand(nonce, epubkey, xcvc) ==
  [type |-> "ReadCommand", cmd |-> Utf8("read"), nonce |-> nonce,
   epubkey |-> epubkey, xcvc |-> xcvc]

WaitCommand(epubkey, xcvc) ==
  [type |-> "WaitCommand", cmd |-> Utf8("wait"), nonce |-> <<>>,
   epubkey |-> epubkey, xcvc |-> xcvc]

\* Vec<u8> without serde_bytes: serialize_seq, one unsigned integer per byte
SerVecU8(b) == VArray([i \in 1..Len(b) |-> VUint(b[i])])

\* Option<Vec<u8>> with no skip_serializing_if: serialize_none / serialize_some
SerOptVecU8(o) == IF is_none(o) THEN VNull ELSE SerVecU8(o[1])

\* #[derive(Serialize)]: a map with one entry per field, in declaration order
Serialize(c) ==
  CASE c.type = "AppletSelect" -> VMap(<<>>)
    [] c.type = "StatusCommand" ->
         VMap(<<[k |-> VText("cmd"), v |-> [t |-> "text", v |-> c.cmd]]>>)
    [] c.type = "ReadCommand" ->
         VMap(<<[k |-> VText("cmd"), v |-> [t |-> "text", v |-> c.cmd]],
                Entry("nonce", SerVecU8(c.nonce)),
                Entry("epubkey", SerOptVecU8(c.epubkey)),
                Entry("xcvc", SerOptVecU8(c.xcvc))>>)
    [] c.type = "WaitCommand" ->
         VMap(<<[k |-> VText("cmd"), v |-> [t |-> "text", v |-> c.cmd]],
                Entry("epubkey", SerOptVecU8(c.epubkey)),
                Entry("xcvc", SerOptVecU8(c.xcvc))>>)

into_writer(c) == Encode(Serialize(c))

(***************************************************************************)
(* build_apdu and CommandApdu::apdu_bytes.  The result is a frame, or the  *)
(* panic of the assert! (a panic unwinds: no value reaches the caller).    *)
(***************************************************************************)
Frame(b) == [kind |-> "frame", bytes |-> b]

Panic == [kind |-> "panic", bytes |-> <<>>]

\* build_apdu with the length byte counting the header too
build_apdu_LenOfFrame(header, command) ==
  LET command_len == Len(command)
  IN  IF command_len <= 255
      THEN Frame(header \o <<(Len(header) + command_len) % 256>> \o command)
      ELSE Panic

build_apdu(header, command) ==
  LET command_len == Len(command)
  IN  IF command_len <= 255
      THEN Frame(header \o <<command_len % 256>> \o command)
      ELSE Panic

\* apdu_bytes with AppletSelect's override missing: the trait's default body
apdu_bytes_NoOverride(c) == build_apdu(CBOR_CLA_INS_P1P2, into_writer(c))

apdu_bytes(c) ==
  IF c.type = "AppletSelect"
  THEN build_apdu(SELECT_CLA_INS_P1P2, APP_ID)
  ELSE build_apdu(CBOR_CLA_INS_P1P2, into_writer(c))

(***************************************************************************)
(* ciborium::de::from_reader into a Value: one RFC 8949 item is read from  *)
(* the front of the buffer.  Modelled: unsigned and negative integers,     *)
(* byte and text strings, arrays, maps, false/true/null, all of definite   *)
(* length.  Tags, floats and indefinite lengths are outside the model: no  *)
(* input of the model holds them.                                          *)
(***************************************************************************)
RECURSIVE BigEndian(_, _, _)
BigEndian(buf, from, k) ==
  IF k = 0 THEN 0 ELSE BigEndian(buf, from, k - 1) * 256 + buf[from + k - 1]

ParseFail == [ok |-> FALSE, val |-> VNull, next |-> 0]

\* the argument of the item at pos: [ok, arg, next] (next: first byte after it)
ParseArg(buf, pos) ==
  LET info == buf[pos] % 32
      extra == CASE info < 24 -> 0
                 [] info = 24 -> 1
                 [] info = 25 -> 2
                 [] info = 26 -> 4
                 [] OTHER -> 0
  IN  IF info > 26 \/ pos + extra > Len(buf)
      THEN [ok |-> FALSE, arg |-> 0, next |-> 0]
      ELSE [ok |-> TRUE,
            arg |-> IF info < 24 THEN info ELSE BigEndian(buf, pos + 1, extra),
            next |-> pos + 1 + extra]

RECURSIVE ParseItem(_, _)
RECURSIVE ParseItems(_, _, _)
RECURSIVE ParseEntries(_, _, _)

ParseItem(buf, pos) ==
  IF pos > Len(buf) THEN ParseFail
  ELSE
    LET major == buf[pos] \div 32
        info == buf[pos] % 32
        a == ParseArg(buf, pos)
    IN  CASE major = 7 ->
               (CASE info = 20 -> [ok |-> TRUE, val |-> VBool(FALSE), next |-> pos + 1]
                  [] info = 21 -> [ok |-> TRUE, val |-> VBool(TRUE), next |-> pos + 1]
                  [] info = 22 -> [ok |-> TRUE, val |-> VNull, next |-> pos + 1]
                  [] OTHER -> ParseFail)
          [] major = 6 -> ParseFail
          [] ~a.ok -> ParseFail
          [] major = 0 -> [ok |-> TRUE, val |-> VUint(a.arg), next |-> a.next]
          [] major = 1 -> [ok |-> TRUE, val |-> [t |-> "nint", v |-> a.arg],
                           next |-> a.next]
          [] major \in {2, 3} ->
               IF a.next + a.arg - 1 > Len(buf) THEN ParseFail
               ELSE [ok |-> TRUE,
                     val |-> [t |-> IF major = 2 THEN "bytes" ELSE "text",
                              v |-> SubSeq(buf, a.next, a.next + a.arg - 1)],
                     next |-> a.next + a.arg]
          [] major = 4 ->
               LET r == ParseItems(buf, a.next, a.arg)
               IN  IF r.ok THEN [ok |-> TRUE, val |-> VArray(r.val), next |-> r.next]
                   ELSE ParseFail
          [] major = 5 ->
               LET r == ParseEntries(buf, a.next, a.arg)
               IN  IF r.ok THEN [ok |-> TRUE, val |-> VMap(r.val), next |-> r.next]
                   ELSE ParseFail

\* n items from pos on, the second half read where the first one ended
ParseItems(buf, pos, n) ==
  IF n = 0 THEN [ok |-> TRUE, val |-> <<>>, next |-> pos]
  ELSE IF n = 1
  THEN LET x == ParseItem(buf, pos)
       IN  IF x.ok THEN [ok |-> TRUE, val |-> <<x.val>>, next |-> x.next]
           ELSE ParseFail
  ELSE LET l == ParseItems(buf, pos, n \div 2)
       IN  IF ~l.ok THEN ParseFail
           ELSE LET r == ParseItems(buf, l.next, n - n \div 2)
                IN  IF ~r.ok THEN ParseFail
                    ELSE [ok |-> TRUE, val |-> l.val \o r.val, next |-> r.next]

\* n key/value pairs from pos on
ParseEntries(buf, pos, n) ==
  IF n = 0 THEN [ok |-> TRUE, val |-> <<>>, next |-> pos]
  ELSE IF n = 1
  THEN LET key == ParseItem(buf, pos)
       IN  IF ~key.ok THEN ParseFail
           ELSE LET x == ParseItem(buf, key.next)
                IN  IF ~x.ok THEN ParseFail
                    ELSE [ok |-> TRUE, val |-> <<[k |-> key.val, v |-> x.val]>>,
                          next |-> x.next]
  ELSE LET l == ParseEntries(buf, pos, n \div 2)
       IN  IF ~l.ok THEN ParseFail
           ELSE LET r == ParseEntries(buf, l.next, n - n \div 2)
                IN  IF ~r.ok THEN ParseFail
                    ELSE [ok |-> TRUE, val |-> l.val \o r.val, next |-> r.next]

from_reader(buf) == ParseItem(buf, 1)

(***************************************************************************)
(* Responses (src/src/lib.rs, "Responses") and Value::deserialized into    *)
(* them: #[derive(Deserialize)] visits the map's entries, ignores a key    *)
(* that names no field, fails on a missing field unless it is an Option    *)
(* (then None), and fails on a value of the wrong type.  The maps of the   *)
(* model have text keys, each at most once.                                *)
(***************************************************************************)
Field(name, ty, opt) == [name |-> name, ty |-> ty, opt |-> opt]

ErrorResponse == <<Field("error", "String", FALSE), Field("code", "usize", FALSE)>>

StatusResponse ==
  <<Field("proto", "usize", FALSE), Field("ver", "String", FALSE),
    Field("birth", "usize", FALSE), Field("slots", "VecUsize", TRUE),
    Field("addr", "String", TRUE), Field("tapsigner", "bool", TRUE),
    Field("satschip", "bool", TRUE), Field("path", "VecUsize", TRUE),
    Field("num_backups", "usize", TRUE), Field("pubkey", "serde_bytes", FALSE),
    Field("card_nonce", "serde_bytes", FALSE), Field("testnet", "bool", TRUE),
    Field("auth_delay", "usize", TRUE)>>

ReadResponse ==
  <<Field("sig", "VecU8", FALSE), Field("pubkey", "VecU8", FALSE),
    Field("card_nonce", "VecU8", FALSE)>>

WaitResponse ==
  <<Field("success", "bool", FALSE), Field("auth_delay", "usize", FALSE)>>

Fields(T) ==
  CASE T = "ErrorResponse" -> ErrorResponse
    [] T = "StatusResponse" -> StatusResponse
    [] T = "ReadResponse" -> ReadResponse
    [] T = "WaitResponse" -> WaitResponse

DeFail == [ok |-> FALSE, v |-> 0]

\* one value into one Rust type
DeValue(ty, val) ==
  CASE ty = "usize" ->
         IF val.t = "uint" THEN [ok |-> TRUE, v |-> val.v] ELSE DeFail
    [] ty = "String" ->
         IF val.t = "text" THEN [ok |-> TRUE, v |-> val.v] ELSE DeFail
    [] ty = "bool" ->
         IF val.t = "bool" THEN [ok |-> TRUE, v |-> val.v] ELSE DeFail
    [] ty = "serde_bytes" ->
         IF val.t = "bytes" THEN [ok |-> TRUE, v |-> val.v] ELSE DeFail
    [] ty = "VecUsize" ->
         IF val.t = "array" /\ \A i \in 1..Len(val.v) : val.v[i].t = "uint"
         THEN [ok |-> TRUE, v |-> [i \in 1..Len(val.v) |-> val.v[i].v]]
         ELSE DeFail
    [] ty = "VecU8" ->
         IF /\ val.t = "array"
            /\ \A i \in 1..Len(val.v) : val.v[i].t = "uint" /\ val.v[i].v < 256
         THEN [ok |-> TRUE, v |-> [i \in 1..Len(val.v) |-> val.v[i].v]]
         ELSE DeFail

\* the places of the entries whose key is the text `name`
KeyPlaces(entries, name) ==
  {i \in 1..Len(entries) : entries[i].k.t = "text" /\ entries[i].k.v = Utf8(name)}

\* DeField with an absent optional field taking a default value, as a
\* #[serde(default)] field of the bare type would
DeField_DefaultWhenAbsent(f, entries) ==
  LET at == KeyPlaces(entries, f.name)
  IN  IF at = {}
      THEN IF f.opt THEN [ok |-> TRUE, v |-> Some(0)] ELSE DeFail
      ELSE LET val == entries[CHOOSE i \in at : TRUE].v
               d == DeValue(f.ty, val)
           IN  IF f.opt
               THEN IF val.t = "null" THEN [ok |-> TRUE, v |-> None]
                    ELSE IF d.ok THEN [ok |-> TRUE, v |-> Some(d.v)] ELSE DeFail
               ELSE d

\* one field of a struct out of the map's entries
DeField(f, entries) ==
  LET at == KeyPlaces(entries, f.name)
  IN  IF at = {}
      THEN IF f.opt THEN [ok |-> TRUE, v |-> None] ELSE DeFail
      ELSE LET val == entries[CHOOSE i \in at : TRUE].v
               d == DeValue(f.ty, val)
           IN  IF f.opt
               THEN IF val.t = "null" THEN [ok |-> TRUE, v |-> None]
                    ELSE IF d.ok THEN [ok |-> TRUE, v |-> Some(d.v)] ELSE DeFail
               ELSE d

\* Value::deserialized::<T>(): [ok, val], val the struct as a record
deserialized(T, value) ==
  LET fs == Fields(T)
      names == {fs[i].name : i \in 1..Len(fs)}
      place(n) == CHOOSE i \in 1..Len(fs) : fs[i].name = n
  IN  IF value.t # "map" THEN [ok |-> FALSE, val |-> <<>>]
      ELSE IF \E i \in 1..Len(fs) : ~DeField(fs[i], value.v).ok
      THEN [ok |-> FALSE, val |-> <<>>]
      ELSE [ok |-> TRUE,
            val |-> [n \in names |-> DeField(fs[place(n)], value.v).v]]

(***************************************************************************)
(* ResponseApdu::from_cbor and the Error it returns.                       *)
(***************************************************************************)
Ok(x) == [kind |-> "Ok", val |-> x]

CiborDe == [kind |-> "CiborDe", val |-> <<>>]

CkTap(error, code) == [kind |-> "CkTap", val |-> [error |-> error, code |-> code]]

\* from_cbor trying the expected type before the error shape
from_cbor_ExpectedFirst(cbor, T) ==
  LET cbor_value == from_reader(cbor)
  IN  IF ~cbor_value.ok THEN CiborDe
      ELSE LET cbor_struct == deserialized(T, cbor_value.val)
           IN  IF cbor_struct.ok THEN Ok(cbor_struct.val)
               ELSE LET error_resp == deserialized("ErrorResponse", cbor_value.val)
                    IN  IF error_resp.ok
                        THEN CkTap(error_resp.val.error, error_resp.val.code)
                        ELSE CiborDe

\* from_cbor taking every failure to read the expected type for a card error
from_cbor_MismatchIsCardError(cbor, T) ==
  LET cbor_value == from_reader(cbor)
  IN  IF ~cbor_value.ok THEN CiborDe
      ELSE LET error_resp == deserialized("ErrorResponse", cbor_value.val)
               cbor_struct == deserialized(T, cbor_value.val)
           IN  IF error_resp.ok
               THEN CkTap(error_resp.val.error, error_resp.val.code)
               ELSE IF cbor_struct.ok THEN Ok(cbor_struct.val)
               ELSE CkTap(<<>>, 0)

from_cbor(cbor, T) ==
  LET cbor_value == from_reader(cbor)
  IN  IF ~cbor_value.ok THEN CiborDe
      ELSE LET error_resp == deserialized("ErrorResponse", cbor_value.val)
           IN  IF error_resp.ok
               THEN CkTap(error_resp.val.error, error_resp.val.code)
               ELSE LET cbor_struct == deserialized(T, cbor_value.val)
                    IN  IF cbor_struct.ok THEN Ok(cbor_struct.val) ELSE CiborDe

(***************************************************************************)
(* The calls of the codec.  A behaviour is one call: Init draws the        *)
(* function and its arguments, the action applies it.                      *)
(*   pc      "call" before the function has run, "return" after            *)
(*   input   the function's name and arguments                             *)
(*   output  what it returned                                              *)
(* card, session and counters belong to the session below.                 *)
(***************************************************************************)
NoOutput == [kind |-> "none", val |-> <<>>]

NoCard == [kind |-> "none", auth_delay |-> 0, path |-> None, nonce |-> 0,
           reports_zero |-> FALSE]

NoSession == [kind |-> "none", auth_delay |-> None, path |-> None, nonce |-> None]

NoCounters == [calls |-> 0, wait |-> 0, init |-> 0, exchange |-> 0, reported |-> None]

Headers == {SELECT_CLA_INS_P1P2, CBOR_CLA_INS_P1P2}

Seeds == 0..MaxSeed

OptKeys ==
  {None} \cup {Some(Pattern(n, s)) : n \in {EPUBKEY_SIZE, LongKeyLen}, s \in Seeds}

OptCvcs ==
  {None} \cup {Some(Pattern(n, s)) : n \in {XCVC_MIN_SIZE, XCVC_MAX_SIZE}, s \in Seeds}

InitEncode ==
  /\ pc = "call"
  /\ output = NoOutput
  /\ card = NoCard
  /\ session = NoSession
  /\ counters = NoCounters
  /\ \/ \E h \in Headers, n \in 0..MaxPayloadLen, s \in Seeds :
          input = [fn |-> "build_apdu", header |-> h, command |-> Pattern(n, s)]
     \/ \E c \in {AppletSelect, StatusCommand} :
          input = [fn |-> "apdu_bytes", self |-> c]
     \/ \E s \in Seeds, e \in OptKeys, x \in OptCvcs :
          input = [fn |-> "apdu_bytes",
                   self |-> ReadCommand(Pattern(USER_NONCE_SIZE, s), e, x)]
     \/ \E e \in OptKeys, x \in OptCvcs :
          input = [fn |-> "apdu_bytes", self |-> WaitCommand(e, x)]

BuildApdu ==
  /\ pc = "call"
  /\ input.fn = "build_apdu"
  /\ output' = build_apdu(input.header, input.command)
  /\ pc' = "return"
  /\ UNCHANGED <<input, card, session, counters>>

ApduBytes ==
  /\ pc = "call"
  /\ input.fn = "apdu_bytes"
  /\ output' = apdu_bytes(input.self)
  /\ pc' = "return"
  /\ UNCHANGED <<input, card, session, counters>>

NextEncode == BuildApdu \/ ApduBytes

Spec == InitEncode /\ [][NextEncode]_vars

(***************************************************************************)
(* The calls of from_cbor.  Init draws the expected type T and a buffer:   *)
(* the encoding of a source value (a response map, with or without the     *)
(* card's error fields, with one field dropped, nulled or ill-typed, or a  *)
(* scalar), whole or damaged.  input.value keeps the source value.         *)
(***************************************************************************)
ResponseTypes == {"StatusResponse", "ReadResponse", "WaitResponse"}

StatusEntries(s, ad) ==
  <<Entry("proto", VUint(1)), Entry("ver", VText("1.0.0")),
    Entry("birth", VUint(0)), Entry("slots", VArray(<<VUint(0), VUint(10)>>)),
    Entry("addr", VText("x")), Entry("tapsigner", VBool(TRUE)),
    Entry("satschip", VBool(FALSE)),
    Entry("path", VArray(<<VUint(84), VUint(0), VUint(300)>>)),
    Entry("num_backups", VUint(0)),
    Entry("pubkey", VBytes(Pattern(EPUBKEY_SIZE, s))),
    Entry("card_nonce", VBytes(Pattern(CARD_NONCE_SIZE, s))),
    Entry("testnet", VBool(FALSE)), Entry("auth_delay", VUint(ad))>>

RequiredOf(T) == {Fields(T)[i].name : i \in {j \in 1..Len(Fields(T)) : ~Fields(T)[j].opt}}

OptionalOf(T) == {Fields(T)[i].name : i \in {j \in 1..Len(Fields(T)) : Fields(T)[j].opt}}

\* which optional fields a status reply carries: none, one, or all of them
OptChoices ==
  {{}} \cup {{o} : o \in OptionalOf("StatusResponse")} \cup {OptionalOf("StatusResponse")}

Keep(es, names) ==
  SelectSeq(es, LAMBDA e : \E n \in names : e.k.v = Utf8(n))

ReadEntries(s) ==
  <<Entry("sig", SerVecU8(Pattern(SIG_SIZE, s))),
    Entry("pubkey", SerVecU8(Pattern(EPUBKEY_SIZE, s))),
    Entry("card_nonce", SerVecU8(Pattern(CARD_NONCE_SIZE, s)))>>

WaitEntries(ad) == <<Entry("success", VBool(TRUE)), Entry("auth_delay", VUint(ad))>>

BaseEntries ==
  {Keep(StatusEntries(s, ad), RequiredOf("StatusResponse") \cup oc) :
     s \in Seeds, ad \in {0, MaxDelay}, oc \in OptChoices}
  \cup {ReadEntries(s) : s \in Seeds}
  \cup {WaitEntries(ad) : ad \in {0, MaxDelay}}
  \cup {<<>>}

ErrModes ==
  {"none", "both", "both_front", "error_only", "code_only", "code_nint", "error_uint"}

WithErr(es, mode) ==
  CASE mode = "none" -> es
    [] mode = "both" -> es \o <<Entry("error", VText("bad auth")), Entry("code", VUint(401))>>
    [] mode = "both_front" -> <<Entry("code", VUint(429)), Entry("error", VText("x"))>> \o es
    [] mode = "error_only" -> es \o <<Entry("error", VText("x"))>>
    [] mode = "code_only" -> es \o <<Entry("code", VUint(401))>>
    [] mode = "code_nint" ->
         es \o <<Entry("error", VText("x")), Entry("code", [t |-> "nint", v |-> 0])>>
    [] mode = "error_uint" -> es \o <<Entry("error", VUint(5)), Entry("code", VUint(401))>>

MutNames == {"proto", "pubkey", "card_nonce", "auth_delay", "num_backups", "sig", "success"}

Mutated(es, name, how) ==
  CASE how = "drop" -> SelectSeq(es, LAMBDA e : e.k.v # Utf8(name))
    [] how = "null" ->
         [i \in 1..Len(es) |->
            IF es[i].k.v = Utf8(name) THEN [k |-> es[i].k, v |-> VNull] ELSE es[i]]
    [] how = "retype" ->
         [i \in 1..Len(es) |->
            IF es[i].k.v = Utf8(name)
            THEN [k |-> es[i].k, v |-> [t |-> "nint", v |-> 0]] ELSE es[i]]

Damaged(bytes, how) ==
  CASE how = "none" -> bytes
    [] how = "empty" -> <<>>
    [] how = "cut" -> SubSeq(bytes, 1, Len(bytes) - 1)
    [] how = "half" -> SubSeq(bytes, 1, Len(bytes) \div 2)
    [] how = "reserved" -> <<28>> \o bytes

FromCborInput(T, value, how) ==
  [fn |-> "from_cbor", T |-> T, value |-> value, damage |-> how,
   cbor |-> Damaged(Encode(value), how)]

InitDecode ==
  /\ pc = "call"
  /\ output = NoOutput
  /\ card = NoCard
  /\ session = NoSession
  /\ counters = NoCounters
  /\ \E T \in ResponseTypes :
       \/ \E es \in BaseEntries, mode \in ErrModes :
            input = FromCborInput(T, VMap(WithErr(es, mode)), "none")
       \/ \E es \in BaseEntries, mode \in {"none", "both"}, name \in MutNames,
             how \in {"drop", "null", "retype"} :
            input = FromCborInput(T, VMap(WithErr(Mutated(es, name, how), mode)), "none")
       \/ \E es \in BaseEntries, mode \in {"none", "both"},
             how \in {"empty", "cut", "half", "reserved"} :
            input = FromCborInput(T, VMap(WithErr(es, mode)), how)
       \/ \E value \in {VUint(5), VText("x"), VNull} :
            input = FromCborInput(T, value, "none")

FromCbor ==
  /\ pc = "call"
  /\ input.fn = "from_cbor"
  /\ output' = from_cbor(input.cbor, input.T)
  /\ pc' = "return"
  /\ UNCHANGED <<input, card, session, counters>>

SpecDecode == InitDecode /\ [][FromCbor]_vars

(***************************************************************************)
(* The card, as the documentation of the commands describes it.            *)
(*   kind          TapSigner, SatsChip or SatsCard                         *)
(*   auth_delay    the delay still to wait out                             *)
(*   path          Some once the card has been initialized                 *)
(*   nonce         the seed of the card's current 16-byte nonce            *)
(*   reports_zero  whether status carries auth_delay when it is 0          *)
(***************************************************************************)
CardKinds == {"TapSigner", "SatsChip", "SatsCard"}

DerivationPath == <<84, 0, 0>>

CardNonce(c) == Pattern(CARD_NONCE_SIZE, c.nonce)

\* the card's reply to status
CardStatusReply(c) ==
  Encode(VMap(
    <<Entry("proto", VUint(1)), Entry("ver", VText("1.0.0")), Entry("birth", VUint(0))>>
    \o (IF c.kind # "SatsCard" THEN <<Entry("tapsigner", VBool(TRUE))>> ELSE <<>>)
    \o (IF c.kind = "SatsChip" THEN <<Entry("satschip", VBool(TRUE))>> ELSE <<>>)
    \o (IF is_some(c.path) THEN <<Entry("path", SerVecU8(c.path[1]))>> ELSE <<>>)
    \o <<Entry("pubkey", VBytes(Pattern(EPUBKEY_SIZE, 0))),
         Entry("card_nonce", VBytes(CardNonce(c)))>>
    \o (IF c.auth_delay > 0 \/ c.reports_zero
        THEN <<Entry("auth_delay", VUint(c.auth_delay))>> ELSE <<>>)))

\* the card after a wait: the delay is one unit lower
CardAfterWait(c) ==
  [c EXCEPT !.auth_delay = IF c.auth_delay > 0 THEN c.auth_delay - 1 ELSE 0]

\* the card's reply to wait, c the card after it
CardWaitReply(c) == Encode(VMap(WaitEntries(c.auth_delay)))

\* the card's reply when it rejects a command
CardErrorReply(code) ==
  Encode(VMap(<<Entry("error", VText("bad auth")), Entry("code", VUint(code))>>))

(***************************************************************************)
(* The session: the card as CkTapCard holds it after discovery, and its    *)
(* operations.  Each operation yields [result, session, card, exchanges].  *)
(***************************************************************************)
ProtocolInvariantViolation == [kind |-> "ProtocolInvariantViolation", val |-> <<>>]

Outcome(result, s, c, n) ==
  [result |-> result, session |-> s, card |-> c, exchanges |-> n]

\* discovery: a status exchange, whose fields the session stores
find_first(c) ==
  LET frame == apdu_bytes(StatusCommand)
      status_response == from_cbor(CardStatusReply(c), "StatusResponse")
  IN  IF frame.kind # "frame" \/ status_response.kind # "Ok"
      THEN Outcome(status_response, NoSession, c, 1)
      ELSE Outcome(status_response,
                   [kind |-> IF status_response.val.satschip = Some(TRUE) THEN "SatsChip"
                             ELSE IF status_response.val.tapsigner = Some(TRUE)
                             THEN "TapSigner" ELSE "SatsCard",
                    auth_delay |-> status_response.val.auth_delay,
                    path |-> status_response.val.path,
                    nonce |-> Some(status_response.val.card_nonce)],
                   c, 1)

\* wait: one exchange; the session's delay is the one the reply carries, and
\* is absent once that is zero
wait(s, c) ==
  LET frame == apdu_bytes(WaitCommand(None, None))
      after == CardAfterWait(c)
      wait_response == from_cbor(CardWaitReply(after), "WaitResponse")
  IN  IF frame.kind # "frame" \/ wait_response.kind # "Ok"
      THEN Outcome(wait_response, s, after, 1)
      ELSE Outcome(wait_response,
                   [s EXCEPT !.auth_delay =
                      IF wait_response.val.auth_delay > 0
                      THEN Some(wait_response.val.auth_delay) ELSE None],
                   after, 1)

\* init with no guard of its own: the command always goes to the card
init_Unguarded(s, c, cvc_ok, fresh) ==
  IF is_some(c.path) \/ ~cvc_ok
  THEN Outcome(from_cbor(CardErrorReply(IF cvc_ok THEN 406 ELSE 401), "WaitResponse"),
               s, c, 1)
  ELSE Outcome(Ok([card_nonce |-> Pattern(CARD_NONCE_SIZE, fresh)]),
               [s EXCEPT !.path = Some(DerivationPath),
                         !.nonce = Some(Pattern(CARD_NONCE_SIZE, fresh))],
               [c EXCEPT !.path = Some(DerivationPath), !.nonce = fresh], 1)

\* one-time init: refused before any exchange once the session knows a
\* derivation path; else one exchange, which the card rejects on a bad CVC
init(s, c, cvc_ok, fresh) ==
  IF is_some(s.path) THEN Outcome(ProtocolInvariantViolation, s, c, 0)
  ELSE IF is_some(c.path) \/ ~cvc_ok
  THEN Outcome(from_cbor(CardErrorReply(IF cvc_ok THEN 406 ELSE 401), "WaitResponse"),
               s, c, 1)
  ELSE Outcome(Ok([card_nonce |-> Pattern(CARD_NONCE_SIZE, fresh)]),
               [s EXCEPT !.path = Some(DerivationPath),
                         !.nonce = Some(Pattern(CARD_NONCE_SIZE, fresh))],
               [c EXCEPT !.path = Some(DerivationPath), !.nonce = fresh], 1)

\* the ReadResponse of a read the card accepts, taken as decoded
ReadResponseOf(fresh) ==
  [sig |-> Pattern(SIG_SIZE, fresh), pubkey |-> Pattern(EPUBKEY_SIZE, 0),
   card_nonce |-> Pattern(CARD_NONCE_SIZE, fresh)]

\* read that keeps the nonce of the exchange just made
read_KeepsNonce(s, c, cvc_ok, fresh) ==
  IF ~cvc_ok
  THEN Outcome(from_cbor(CardErrorReply(401), "ReadResponse"), s, c, 1)
  ELSE Outcome(Ok(ReadResponseOf(fresh)), s, [c EXCEPT !.nonce = fresh], 1)

\* read: one exchange; the session's nonce becomes the reply's card_nonce,
\* nothing else of the session changes
read(s, c, cvc_ok, fresh) ==
  IF ~cvc_ok
  THEN Outcome(from_cbor(CardErrorReply(401), "ReadResponse"), s, c, 1)
  ELSE Outcome(Ok(ReadResponseOf(fresh)),
               [s EXCEPT !.nonce = Some(ReadResponseOf(fresh).card_nonce)],
               [c EXCEPT !.nonce = fresh], 1)

\* nfc and dump: one exchange that leaves session and card as they are
query(s, c, cvc_ok) ==
  IF ~cvc_ok
  THEN Outcome(from_cbor(CardErrorReply(401), "WaitResponse"), s, c, 1)
  ELSE Outcome(Ok(<<>>), s, c, 1)

\* the nonces the card may draw next: any but the current one
FreshNonces(c) == (0..MaxNonce) \ {c.nonce}

Cards ==
  {[kind |-> k, auth_delay |-> d, path |-> p, nonce |-> n, reports_zero |-> z] :
     k \in CardKinds, d \in 0..MaxDelay, p \in {None, Some(DerivationPath)},
     n \in 0..MaxNonce, z \in BOOLEAN}

(***************************************************************************)
(* The driver of src/examples/pcsc.rs.  pc is main's place:                *)
(*   find_first, wait_loop, init_check, read, nfc, dump, done, err         *)
(* counters.wait counts the wait commands issued, counters.reported is the *)
(* auth_delay the status of the discovery reported.                        *)
(***************************************************************************)
Count(o, fn, ok) ==
  [counters EXCEPT !.calls = @ + 1,
                   !.exchange = @ + o.exchanges,
                   !.wait = @ + (IF fn = "wait" THEN 1 ELSE 0),
                   !.init = @ + (IF fn = "init" /\ ok THEN 1 ELSE 0)]

\* what a call leaves behind: the operation's outcome, or Err through `?`
Apply(fn, o, then) ==
  /\ input' = [fn |-> fn]
  /\ output' = o.result
  /\ session' = o.session
  /\ card' = o.card
  /\ counters' = Count(o, fn, o.result.kind = "Ok")
  /\ pc' = IF o.result.kind = "Ok" THEN then ELSE "err"

InitMain ==
  /\ pc = "find_first"
  /\ input = [fn |-> "main"]
  /\ output = NoOutput
  /\ card \in Cards
  /\ session = NoSession
  /\ counters = NoCounters

MainFindFirst ==
  /\ pc = "find_first"
  /\ \E o \in {find_first(card)} :
         /\ input' = [fn |-> "find_first"]
         /\ output' = o.result
         /\ session' = o.session
         /\ card' = o.card
         /\ counters' = [counters EXCEPT !.calls = @ + 1, !.exchange = @ + 1,
                                         !.reported = o.session.auth_delay]
         /\ pc' = IF o.result.kind = "Ok" THEN "wait_loop" ELSE "err"

\* while card.auth_delay.is_some() { card.wait(None)?; }
MainWait ==
  /\ pc = "wait_loop"
  /\ is_some(session.auth_delay)
  /\ \E o \in {wait(session, card)} : Apply("wait", o, "wait_loop")

MainWaitDone ==
  /\ pc = "wait_loop"
  /\ ~is_some(session.auth_delay)
  /\ pc' = IF session.kind = "SatsCard" THEN "dump" ELSE "init_check"
  /\ UNCHANGED <<input, output, card, session, counters>>

\* if card.path.is_none() { card.init(chain_code, get_cvc())?; }
MainInit ==
  /\ pc = "init_check"
  /\ is_none(session.path)
  /\ \E cvc_ok \in BOOLEAN, fresh \in FreshNonces(card) :
       \E o \in {init(session, card, cvc_ok, fresh)} : Apply("init", o, "read")

MainInitSkipped ==
  /\ pc = "init_check"
  /\ ~is_none(session.path)
  /\ pc' = "read"
  /\ UNCHANGED <<input, output, card, session, counters>>

MainRead ==
  /\ pc = "read"
  /\ \E cvc_ok \in BOOLEAN, fresh \in FreshNonces(card) :
       \E o \in {read(session, card, cvc_ok, fresh)} : Apply("read", o, "nfc")

MainNfc ==
  /\ pc = "nfc"
  /\ \E o \in {query(session, card, TRUE)} : Apply("nfc", o, "done")

MainDump ==
  /\ pc = "dump"
  /\ \E cvc_ok \in BOOLEAN :
       \E o \in {query(session, card, cvc_ok)} : Apply("dump", o, "done")

NextMain ==
  \/ MainFindFirst
  \/ MainWait
  \/ MainWaitDone
  \/ MainInit
  \/ MainInitSkipped
  \/ MainRead
  \/ MainNfc
  \/ MainDump

SpecMain == InitMain /\ [][NextMain]_vars

(***************************************************************************)
(* A session used freely: after discovery the caller makes up to MaxCalls  *)
(* calls of status, wait, init and read in any order.                      *)
(***************************************************************************)
MaxCalls == 3

InitSession ==
  /\ pc = "session"
  /\ input = [fn |-> "find_first"]
  /\ card \in Cards
  /\ \E o \in {find_first(card)} :
       /\ output = o.result
       /\ session = o.session
       /\ counters = [NoCounters EXCEPT !.exchange = 1,
                                        !.reported = o.session.auth_delay]

Call(fn, o) ==
  /\ counters.calls < MaxCalls
  /\ input' = [fn |-> fn]
  /\ output' = o.result
  /\ session' = o.session
  /\ card' = o.card
  /\ counters' = Count(o, fn, o.result.kind = "Ok")
  /\ UNCHANGED pc

CallStatus ==
  /\ pc = "session"
  /\ \E o \in {find_first(card)} : Call("status", o)

CallWait ==
  /\ pc = "session"
  /\ \E o \in {wait(session, card)} : Call("wait", o)

CallInit ==
  /\ pc = "session"
  /\ session.kind # "SatsCard"
  /\ \E cvc_ok \in BOOLEAN, fresh \in FreshNonces(card) :
       \E o \in {init(session, card, cvc_ok, fresh)} : Call("init", o)

CallRead ==
  /\ pc = "session"
  /\ \E cvc_ok \in BOOLEAN, fresh \in FreshNonces(card) :
       \E o \in {read(session, card, cvc_ok, fresh)} : Call("read", o)

NextSession == CallStatus \/ CallWait \/ CallInit \/ CallRead

SpecSession == InitSession /\ [][NextSession]_vars

(***************************************************************************)
(* Claims about build_apdu and apdu_bytes (specification Spec).            *)
(***************************************************************************)
Returned(fn) == pc = "return" /\ input.fn = fn

\* the payload a call hands to the frame codec
PayloadOf(in) ==
  IF in.fn = "build_apdu" THEN in.command
  ELSE IF in.self.type = "AppletSelect" THEN APP_ID
  ELSE into_writer(in.self)

\* C2: for every 4-byte header and every payload of 0..255 bytes, build_apdu
\* returns header, one byte equal to the payload length, payload: 5 + length
\* bytes in all.
C2_FrameLayout ==
  (Returned("build_apdu") /\ Len(input.command) <= 255) =>
    /\ output.kind = "frame"
    /\ Len(output.bytes) = 5 + Len(input.command)
    /\ SubSeq(output.bytes, 1, 4) = input.header
    /\ output.bytes[5] = Len(input.command)
    /\ SubSeq(output.bytes, 6, Len(output.bytes)) = input.command

C2_Witness ==
  /\ Returned("build_apdu")
  /\ Len(input.command) = 255
  /\ output.kind = "frame"
  /\ output.bytes[5] = 255

\* C3: a payload longer than 255 bytes makes build_apdu (and apdu_bytes) fail
\* with a ProtocolInvariantViolation error result handed to the caller and no
\* frame; a payload of 0..255 bytes never fails.
C3_OversizedIsErrorResult ==
  (pc = "return" /\ input.fn \in {"build_apdu", "apdu_bytes"}) =>
    IF Len(PayloadOf(input)) > 255
    THEN output.kind = "ProtocolInvariantViolation"
    ELSE output.kind = "frame"

StatusPayload == <<161, 99, 99, 109, 100, 102, 115, 116, 97, 116, 117, 115>>

\* the optional fields have the sizes their documentation asks for
WellFormed(c) ==
  /\ is_some(c.epubkey) => Len(c.epubkey[1]) = EPUBKEY_SIZE
  /\ is_some(c.xcvc) => Len(c.xcvc[1]) \in XCVC_MIN_SIZE..XCVC_MAX_SIZE

\* C7: AppletSelect, and no other command, yields the SELECT header with the
\* raw 15-byte application identifier (20 bytes, length byte 15); Status, Read
\* and Wait yield the CBOR header with the CBOR encoding of the command map.
C7_HeaderSelection ==
  /\ (Returned("apdu_bytes") /\ WellFormed(input.self)) => output.kind = "frame"
  /\ (Returned("apdu_bytes") /\ output.kind = "frame") =>
    /\ input.self.type = "AppletSelect" =>
         /\ output.bytes = SELECT_CLA_INS_P1P2 \o <<15>> \o APP_ID
         /\ Len(output.bytes) = 20
    /\ input.self.type # "AppletSelect" =>
         /\ SubSeq(output.bytes, 1, 4) = CBOR_CLA_INS_P1P2
         /\ output.bytes[5] = Len(output.bytes) - 5
         /\ LET parsed == from_reader(SubSeq(output.bytes, 6, Len(output.bytes)))
            IN  /\ parsed.ok
                /\ parsed.next = Len(output.bytes) - 4
                /\ parsed.val.t = "map"
                /\ parsed.val.v[1].k = VText("cmd")
                /\ parsed.val.v[1].v.v = input.self.cmd
    /\ input.self.type = "StatusCommand" =>
         SubSeq(output.bytes, 6, Len(output.bytes)) = StatusPayload
    /\ (SubSeq(output.bytes, 1, 4) = SELECT_CLA_INS_P1P2)
         <=> (input.self.type = "AppletSelect")

C7_Witness ==
  /\ Returned("apdu_bytes")
  /\ input.self.type = "AppletSelect"
  /\ output.kind = "frame"
  /\ SubSeq(output.bytes, 1, 4) = SELECT_CLA_INS_P1P2

PresentOptionals(c) ==
  (IF is_some(c.epubkey) THEN 1 ELSE 0) + (IF is_some(c.xcvc) THEN 1 ELSE 0)

\* C8: the CBOR map of a command has a key for an optional field only when
\* the field is present; an absent optional field is omitted, never null.
C8_AbsentOptionalsOmitted ==
  (Returned("apdu_bytes") /\ output.kind = "frame"
     /\ input.self.type # "AppletSelect") =>
    LET parsed == from_reader(SubSeq(output.bytes, 6, Len(output.bytes)))
        fixed == IF input.self.type = "ReadCommand" THEN 2 ELSE 1
    IN  /\ parsed.ok
        /\ parsed.val.t = "map"
        /\ Len(parsed.val.v) = fixed + PresentOptionals(input.self)
        /\ \A i \in 1..Len(parsed.val.v) : parsed.val.v[i].v.t # "null"

(***************************************************************************)
(* Claims about from_cbor (specification SpecDecode).  They relate the     *)
(* result to the source value the buffer was encoded from.                 *)
(***************************************************************************)
\* the map `value` has the text key `name` with a value of CBOR type t
HasTyped(value, name, t) ==
  /\ value.t = "map"
  /\ \E i \in KeyPlaces(value.v, name) : value.v[i].v.t = t

HasKey(value, name) == value.t = "map" /\ KeyPlaces(value.v, name) # {}

ValueAt(value, name) == value.v[CHOOSE i \in KeyPlaces(value.v, name) : TRUE].v

ErrorShaped(value) ==
  HasTyped(value, "error", "text") /\ HasTyped(value, "code", "uint")

\* the CBOR type a field's Rust type is read from
CborType(ty) ==
  CASE ty = "usize" -> "uint"
    [] ty = "String" -> "text"
    [] ty = "bool" -> "bool"
    [] ty = "serde_bytes" -> "bytes"
    [] ty \in {"VecUsize", "VecU8"} -> "array"

\* every required field of T is in the map, and every field of T that is in
\* the map has a value of the field's type
Shaped(T, value) ==
  /\ value.t = "map"
  /\ \A i \in 1..Len(Fields(T)) :
       LET f == Fields(T)[i]
       IN  /\ ~f.opt => HasKey(value, f.name)
           /\ HasKey(value, f.name) => HasTyped(value, f.name, CborType(f.ty))

\* as Shaped, but an optional field may also hold null (read as None)
Matches(T, value) ==
  /\ value.t = "map"
  /\ \A i \in 1..Len(Fields(T)) :
       LET f == Fields(T)[i]
       IN  /\ ~f.opt => HasKey(value, f.name)
           /\ HasKey(value, f.name) =>
                \/ HasTyped(value, f.name, CborType(f.ty))
                \/ f.opt /\ HasTyped(value, f.name, "null")

\* the Rust value of a CBOR value
Native(val) ==
  IF val.t = "array" THEN [i \in 1..Len(val.v) |-> val.v[i].v] ELSE val.v

\* C1: a buffer that parses as a map with a text field error and an unsigned
\* integer field code decodes, for every expected type T, to the card error
\* with exactly that error and code, never to Ok(T).
C1_ErrorPrecedence ==
  (Returned("from_cbor") /\ input.damage = "none" /\ ErrorShaped(input.value)) =>
    output = CkTap(ValueAt(input.value, "error").v, ValueAt(input.value, "code").v)

C1_Witness ==
  /\ Returned("from_cbor")
  /\ input.damage = "none"
  /\ ErrorShaped(input.value)
  /\ Shaped(input.T, input.value)
  /\ input.T = "WaitResponse"
  /\ output.kind = "CkTap"
  /\ output.val.code = 401

\* C6: a StatusResponse-shaped map decodes field for field to the values of
\* the map; an optional field missing from the map decodes to None, never to
\* a default; auth_delay = 0 decodes to Some(0).
C6_OptionalFields ==
  (Returned("from_cbor") /\ input.T = "StatusResponse" /\ input.damage = "none"
     /\ Shaped("StatusResponse", input.value) /\ ~ErrorShaped(input.value)) =>
    /\ output.kind = "Ok"
    /\ \A i \in 1..Len(StatusResponse) :
         LET f == StatusResponse[i]
         IN  IF HasKey(input.value, f.name)
             THEN output.val[f.name] =
                    IF f.opt THEN Some(Native(ValueAt(input.value, f.name)))
                    ELSE Native(ValueAt(input.value, f.name))
             ELSE output.val[f.name] = None
    /\ (HasKey(input.value, "auth_delay") /\ ValueAt(input.value, "auth_delay").v = 0)
         => (output.val.auth_delay = Some(0) /\ output.val.auth_delay # None)

C6_Witness ==
  /\ Returned("from_cbor")
  /\ input.T = "StatusResponse"
  /\ input.damage = "none"
  /\ HasTyped(input.value, "auth_delay", "uint")
  /\ ValueAt(input.value, "auth_delay").v = 0
  /\ ~HasKey(input.value, "path")
  /\ output.kind = "Ok"
  /\ output.val.auth_delay = Some(0)
  /\ output.val.path = None

\* C9: every buffer yields exactly one outcome: not valid CBOR, a decode
\* error; valid and error-shaped, the card error; valid and neither
\* error-shaped nor T-shaped, a decode error; Ok(T) only when the value is not
\* error-shaped and is T-shaped.
C9_Classification ==
  Returned("from_cbor") =>
    LET valid == input.damage = "none"
        isErr == valid /\ ErrorShaped(input.value)
        isT == valid /\ Matches(input.T, input.value)
    IN  /\ output.kind \in {"Ok", "CkTap", "CiborDe"}
        /\ ~valid => output = CiborDe
        /\ isErr => output.kind = "CkTap"
        /\ (valid /\ ~isErr /\ ~isT) => output = CiborDe
        /\ output.kind = "Ok" <=> (valid /\ ~isErr /\ isT)

C9_Witness ==
  /\ Returned("from_cbor")
  /\ input.damage = "none"
  /\ ~ErrorShaped(input.value)
  /\ ~Matches(input.T, input.value)
  /\ HasKey(input.value, "error")
  /\ output = CiborDe

(***************************************************************************)
(* Claims about the driver (SpecMain) and the session (SpecSession).       *)
(***************************************************************************)
ReportedDelay == IF is_some(counters.reported) THEN counters.reported[1] ELSE 0

PastWaitLoop == pc \in {"init_check", "read", "nfc", "dump", "done"}

\* C4: from a status that reports auth_delay = N (N >= 0), with every wait
\* lowering the delay by exactly 1, the loop issues exactly N wait commands,
\* then goes on to the card's operations and issues no further wait.
C4_WaitLoopExactlyN ==
  /\ PastWaitLoop => counters.wait = ReportedDelay
  /\ (pc = "wait_loop" /\ counters.wait = ReportedDelay) => is_none(session.auth_delay)

IsCall(fn) == counters'.calls = counters.calls + 1 /\ input'.fn = fn

C10_ReadEffect ==
  [][(IsCall("read") /\ output'.kind = "Ok") =>
       /\ session'.nonce = Some(output'.val.card_nonce)
       /\ session'.nonce = Some(CardNonce(card'))
       /\ session'.nonce # Some(CardNonce(card))
       /\ session'.auth_delay = session.auth_delay
       /\ session'.path = session.path
       /\ session'.kind = session.kind]_vars

C10_Witness ==
  /\ pc = "session"
  /\ input.fn = "read"
  /\ output.kind = "Ok"
  /\ session.nonce = Some(output.val.card_nonce)
  /\ is_some(session.auth_delay)
  /\ is_none(session.path)

====
